---------------------------- MODULE Spec2Model ----------------------------
(***************************************************************************)
(* WAV-to-IMG.py: a WAV recording is loaded, turned into a spectrogram,    *)
(* its occupied band is detected, the axes are calibrated to UTC time and  *)
(* absolute frequency, and the result is handed to matplotlib.             *)
(*                                                                         *)
(* Units of the model.  Powers are whole numbers; the quantity p + 1e-10   *)
(* is the pair [whole |-> p, eps |-> 1], exact because 1e-10 is smaller    *)
(* than the gap between two whole powers.  A decibel value 10*log10(q) is  *)
(* represented by its argument q (log10 is strictly increasing), with the  *)
(* flag finite = FALSE for log10(0) = -inf.  Times are counted in half     *)
(* sample periods (scipy's segment centres are nperseg/2 + k*step          *)
(* samples), frequencies in Hz, megahertz values as exact fractions.       *)
(***************************************************************************)
EXTENDS Integers, Sequences, FiniteSets

VARIABLES pc, NFFT, noverlap, utc_time, base_freq_hz, loadResult,
          sample_rate, linear_array, freqs_array, time_array, Pxx,
          min_freq, max_freq, freqs_array_display, Pxx_display,
          start_time, log_spec, sink, error

vars == <<pc, NFFT, noverlap, utc_time, base_freq_hz, loadResult,
          sample_rate, linear_array, freqs_array, time_array, Pxx,
          min_freq, max_freq, freqs_array_display, Pxx_display,
          start_time, log_spec, sink, error>>

---------------------------------------------------------------------------
(* Bounds and input sets *)

MaxLen == 4

MaxNFFT == MaxLen + 1

MaxChannels == 2

threshold_db == 20

HzPerMHz == 1000000

RECURSIVE Pow10(_)
Pow10(n) == IF n = 0 THEN 1 ELSE 10 * Pow10(n - 1)

\* the power at which 10*log10(power) equals threshold_db
ThresholdPower == Pow10(threshold_db \div 10)

\* silence, just under the threshold, on the threshold
PowerVals == {0, ThresholdPower - 1, ThresholdPower}

\* one rate, a multiple of every window length the bounds allow, so that
\* every frequency bin is a whole number of Hz
SampleRates == {60}

StartTimes == {0, 100}

BaseFreqs == {0, 1000}

Presets == << [NFFT |-> 32786, noverlap |-> 30000],
              [NFFT |-> 16384, noverlap |-> 15000],
              [NFFT |-> 16384, noverlap |-> 12000] >>

---------------------------------------------------------------------------
(* numpy helpers *)

Reverse(s) == [i \in 1..Len(s) |-> s[Len(s) + 1 - i]]

SeqMin(s) == CHOOSE m \in {s[i] : i \in 1..Len(s)} :
                 \A i \in 1..Len(s) : m <= s[i]

SeqMax(s) == CHOOSE m \in {s[i] : i \in 1..Len(s)} :
                 \A i \in 1..Len(s) : m >= s[i]

\* np.argmax of a boolean array, 0-based: the first index holding the
\* largest value, which is index 0 when every entry is False
ArgMax(b) == IF \E i \in 1..Len(b) : b[i]
             THEN (CHOOSE i \in 1..Len(b) :
                      b[i] /\ \A j \in 1..(i - 1) : ~b[j]) - 1
             ELSE 0

RECURSIVE BoolIndex(_, _)
\* a[mask]: the entries of a whose mask entry is True, in order
BoolIndex(a, mask) ==
    IF Len(a) = 0 THEN <<>>
    ELSE IF mask[1] THEN <<a[1]>> \o BoolIndex(Tail(a), Tail(mask))
         ELSE BoolIndex(Tail(a), Tail(mask))

AddEps(p) == [whole |-> p, eps |-> 1]

Exact(p) == [whole |-> p, eps |-> 0]

\* 10 * np.log10(q): -inf at q = 0
TenLog10(q) == [finite |-> ~(q.whole = 0 /\ q.eps = 0), arg |-> q]

\* d > t for a decibel value d and a whole number of decibels t
DbGreater(d, t) ==
    /\ d.finite
    /\ \/ d.arg.whole > Pow10(t \div 10)
       \/ d.arg.whole = Pow10(t \div 10) /\ d.arg.eps > 0

---------------------------------------------------------------------------
(* scipy.io.wavfile.read as data_acquisition uses it *)

\* sample of frame i, channel c of the recording
Sample(i, c) == 10 * c + i

\* the array read() returns: 1-D for one channel, frames of nch samples else
FileData(len, nch) ==
    IF nch = 1 THEN [i \in 1..len |-> Sample(i, 1)]
    ELSE [i \in 1..len |-> [c \in 1..nch |-> Sample(i, c)]]

\* linear_array[:, 0] when linear_array.ndim > 1
FirstChannel(data, nch) ==
    IF nch > 1 THEN [i \in 1..Len(data) |-> data[i][1]] ELSE data

---------------------------------------------------------------------------
(* signal.spectrogram(linear_array, sample_rate, nperseg, noverlap) *)

\* nperseg greater than the input length is replaced by the input length
\* (scipy warns and goes on)
Nperseg(N, len) == IF N > len THEN len ELSE N

\* scipy raises ValueError for nperseg < 1 and for noverlap >= nperseg
SpectrogramRaises(N, V, len) ==
    \/ Nperseg(N, len) < 1
    \/ V >= Nperseg(N, len)

RECURSIVE SegmentStartsShort(_, _, _, _)
\* SegmentStarts with the last whole segment lost (>= for >)
SegmentStartsShort(len, n, step, start) ==
    IF start + n >= len THEN <<>>
    ELSE <<start>> \o SegmentStartsShort(len, n, step, start + step)

RECURSIVE SegmentStarts(_, _, _, _)
\* first sample of every whole segment of n samples, one every step samples
\* (boundary=None, padded=False: a trailing partial segment is dropped)
SegmentStarts(len, n, step, start) ==
    IF start + n > len THEN <<>>
    ELSE <<start>> \o SegmentStarts(len, n, step, start + step)

\* segment centres, in half sample periods
SegmentTimes(len, n, v) ==
    LET starts == SegmentStarts(len, n, n - v, 0)
    IN  [k \in 1..Len(starts) |-> n + 2 * starts[k]]

\* np.fft.rfftfreq(n, 1/fs): n \div 2 + 1 bins from 0 to fs/2
SegmentFreqs(n, fs) == [i \in 1..(n \div 2 + 1) |-> ((i - 1) * fs) \div n]

---------------------------------------------------------------------------
(* detect_valid_frequency_range *)

\* np.max(Pxx, axis=1)
RowMax(P) == [r \in 1..Len(P) |-> SeqMax(P[r])]

\* max_db_per_freq > threshold_db
AboveThreshold(P) ==
    [r \in 1..Len(P) |->
        DbGreater(TenLog10(AddEps(RowMax(P)[r])), threshold_db)]

MinFreqIndex(P) == ArgMax(AboveThreshold(P))

\* MaxFreqIndex without the [::-1]
MaxFreqIndexNoReverse(P, nfreqs) ==
    nfreqs - ArgMax(AboveThreshold(P)) - 1

MaxFreqIndex(P, nfreqs) == nfreqs - ArgMax(Reverse(AboveThreshold(P))) - 1

\* np.max over axis 1 raises for the empty surface and for a surface with
\* no time column (zero-size reduction); the except clause then returns None
DetectRaises(P) ==
    \/ Len(P) = 0
    \/ \E r \in 1..Len(P) : Len(P[r]) = 0

---------------------------------------------------------------------------
(* the display range and the calibration of plot_fft_freq_chart *)

\* display_mask with > and < for >= and <=
display_mask_open(freqs, lo, hi) ==
    [i \in 1..Len(freqs) |-> freqs[i] > lo /\ freqs[i] < hi]

display_mask(freqs, lo, hi) ==
    [i \in 1..Len(freqs) |-> freqs[i] >= lo /\ freqs[i] <= hi]

\* ToMHz without the base frequency
ToMHzNoBase(base, f) == [num |-> f, den |-> HzPerMHz]

\* (base_freq_hz + f) / 1e6 as an exact fraction
ToMHz(base, f) == [num |-> base + f, den |-> HzPerMHz]

AbsoluteFreqs(base, fs) == [i \in 1..Len(fs) |-> ToMHz(base, fs[i])]

\* freqs_array_display.min() and .max(), comparing fractions
MHzMin(s) == CHOOSE x \in {s[i] : i \in 1..Len(s)} :
                 \A i \in 1..Len(s) : x.num * s[i].den <= s[i].num * x.den

MHzMax(s) == CHOOSE x \in {s[i] : i \in 1..Len(s)} :
                 \A i \in 1..Len(s) : x.num * s[i].den >= s[i].num * x.den

\* start_time + timedelta(seconds=sec) for every sec, with start_time
\* inserted in front
AbsoluteTimes(start, ts) ==
    <<start>> \o [i \in 1..Len(ts) |-> start + ts[i]]

\* 10 * np.log10(Pxx_display)
LogSpec(P) ==
    [r \in 1..Len(P) |-> [c \in 1..Len(P[r]) |-> TenLog10(Exact(P[r][c]))]]

---------------------------------------------------------------------------
(* The script, top to bottom *)

Init ==
    /\ pc = "preset"
    /\ NFFT = 0
    /\ noverlap = 0
    /\ utc_time = 0
    /\ base_freq_hz = 0
    /\ loadResult = "unset"
    /\ sample_rate = 0
    /\ linear_array = <<>>
    /\ freqs_array = <<>>
    /\ time_array = <<>>
    /\ Pxx = <<>>
    /\ min_freq = 0
    /\ max_freq = 0
    /\ freqs_array_display = <<>>
    /\ Pxx_display = <<>>
    /\ start_time = 0
    /\ log_spec = <<>>
    /\ sink = <<>>
    /\ error = "none"

\* choose == "0": the pair typed in is taken when NFFT >= noverlap
ManualEntry ==
    /\ pc = "preset"
    /\ \E n \in 0..MaxNFFT, v \in -1..MaxNFFT :
          /\ n >= v
          /\ NFFT' = n
          /\ noverlap' = v
    /\ pc' = "resolve"
    /\ UNCHANGED <<utc_time, base_freq_hz, loadResult, sample_rate,
                   linear_array, freqs_array, time_array, Pxx, min_freq,
                   max_freq, freqs_array_display, Pxx_display, start_time,
                   log_spec, sink, error>>

\* choose == "1", "2" or "3"
PresetChoice ==
    /\ pc = "preset"
    /\ \E k \in 1..Len(Presets) :
          /\ NFFT' = Presets[k].NFFT
          /\ noverlap' = Presets[k].noverlap
    /\ pc' = "resolve"
    /\ UNCHANGED <<utc_time, base_freq_hz, loadResult, sample_rate,
                   linear_array, freqs_array, time_array, Pxx, min_freq,
                   max_freq, freqs_array_display, Pxx_display, start_time,
                   log_spec, sink, error>>

\* name, time_str, freq_str, utc_time, base_freq_mhz = name_resolution(...)
NameResolution ==
    /\ pc = "resolve"
    /\ utc_time' \in StartTimes
    /\ base_freq_hz' \in BaseFreqs
    /\ pc' = "load"
    /\ UNCHANGED <<NFFT, noverlap, loadResult, sample_rate, linear_array,
                   freqs_array, time_array, Pxx, min_freq, max_freq,
                   freqs_array_display, Pxx_display, start_time, log_spec,
                   sink, error>>

\* sample_rate, linear_array = data_acquisition(filename), file unreadable:
\* IOError is caught, (None, None) is returned and the script goes on
LoadIOError ==
    /\ pc = "load"
    /\ loadResult' = "none_pair"
    /\ error' = "IOError"
    /\ pc' = "plot"
    /\ UNCHANGED <<NFFT, noverlap, utc_time, base_freq_hz, sample_rate,
                   linear_array, freqs_array, time_array, Pxx, min_freq,
                   max_freq, freqs_array_display, Pxx_display, start_time,
                   log_spec, sink>>

\* file not a WAV container: read() raises ValueError, the broad except
\* returns -1, and unpacking -1 into two names raises TypeError
LoadOtherError ==
    /\ pc = "load"
    /\ loadResult' = "minus_one"
    /\ error' = "Exception"
    /\ pc' = "crashed"
    /\ UNCHANGED <<NFFT, noverlap, utc_time, base_freq_hz, sample_rate,
                   linear_array, freqs_array, time_array, Pxx, min_freq,
                   max_freq, freqs_array_display, Pxx_display, start_time,
                   log_spec, sink>>

\* a readable WAV file of len frames and nch channels
LoadOk ==
    /\ pc = "load"
    /\ \E len \in 0..MaxLen, nch \in 1..MaxChannels, fs \in SampleRates :
          /\ sample_rate' = fs
          /\ linear_array' = FirstChannel(FileData(len, nch), nch)
    /\ loadResult' = "pair"
    /\ pc' = "plot"
    /\ UNCHANGED <<NFFT, noverlap, utc_time, base_freq_hz, freqs_array,
                   time_array, Pxx, min_freq, max_freq, freqs_array_display,
                   Pxx_display, start_time, log_spec, sink, error>>

\* plot_fft_freq_chart, the signal.spectrogram call
Spectrogram ==
    /\ pc = "plot"
    /\ IF loadResult = "none_pair"
       THEN \* linear_array is None: an exception neither except clause names
            /\ pc' = "crashed"
            /\ error' = "Uncaught"
            /\ UNCHANGED <<freqs_array, time_array, Pxx>>
       ELSE IF Len(linear_array) = 0
       THEN \* empty input: three empty arrays come back
            /\ pc' = "detect"
            /\ UNCHANGED <<freqs_array, time_array, Pxx, error>>
       ELSE IF SpectrogramRaises(NFFT, noverlap, Len(linear_array))
       THEN \* except ValueError: return -1
            /\ pc' = "returned"
            /\ error' = "ValueError"
            /\ UNCHANGED <<freqs_array, time_array, Pxx>>
       ELSE LET n == Nperseg(NFFT, Len(linear_array))
                f == SegmentFreqs(n, sample_rate)
                t == SegmentTimes(Len(linear_array), n, noverlap)
            IN  /\ freqs_array' = f
                /\ time_array' = t
                /\ Pxx' \in [1..Len(f) -> [1..Len(t) -> PowerVals]]
                /\ pc' = "detect"
                /\ UNCHANGED error
    /\ UNCHANGED <<NFFT, noverlap, utc_time, base_freq_hz, loadResult,
                   sample_rate, linear_array, min_freq, max_freq,
                   freqs_array_display, Pxx_display, start_time, log_spec,
                   sink>>

\* min_freq, max_freq = detect_valid_frequency_range(freqs_array, Pxx)
Detect ==
    /\ pc = "detect"
    /\ IF DetectRaises(Pxx)
       THEN \* None is returned and cannot be unpacked: TypeError
            /\ pc' = "crashed"
            /\ error' = "Uncaught"
            /\ UNCHANGED <<min_freq, max_freq>>
       ELSE /\ min_freq' = freqs_array[MinFreqIndex(Pxx) + 1]
            /\ max_freq' = freqs_array[MaxFreqIndex(Pxx, Len(freqs_array)) + 1]
            /\ pc' = "calibrate"
            /\ UNCHANGED error
    /\ UNCHANGED <<NFFT, noverlap, utc_time, base_freq_hz, loadResult,
                   sample_rate, linear_array, freqs_array, time_array, Pxx,
                   freqs_array_display, Pxx_display, start_time, log_spec,
                   sink>>

\* display range, del freqs_array, Pxx, time axis, frequency axis, log_spec
Calibrate ==
    /\ pc = "calibrate"
    /\ LET mask == display_mask(freqs_array, min_freq, max_freq)
           start == utc_time + SeqMin(time_array)
       IN  /\ freqs_array_display' =
                 AbsoluteFreqs(base_freq_hz, BoolIndex(freqs_array, mask))
           /\ Pxx_display' = BoolIndex(Pxx, mask)
           /\ start_time' = start
           /\ time_array' = AbsoluteTimes(start, time_array)
           /\ log_spec' = LogSpec(BoolIndex(Pxx, mask))
    /\ freqs_array' = <<>>
    /\ Pxx' = <<>>
    /\ pc' = "render"
    /\ UNCHANGED <<NFFT, noverlap, utc_time, base_freq_hz, loadResult,
                   sample_rate, linear_array, min_freq, max_freq, sink,
                   error>>

\* plt.imshow(log_spec, ..., extent=[...]) and plt.show()
Render ==
    /\ pc = "render"
    /\ IF Len(freqs_array_display) = 0
       THEN \* .min() of an empty array: ValueError, return -1
            /\ pc' = "returned"
            /\ error' = "ValueError"
            /\ UNCHANGED sink
       ELSE /\ sink' = << [amplitude |-> log_spec,
                           extent |-> << SeqMin(time_array),
                                         SeqMax(time_array),
                                         MHzMin(freqs_array_display),
                                         MHzMax(freqs_array_display) >>] >>
            /\ pc' = "done"
            /\ UNCHANGED error
    /\ UNCHANGED <<NFFT, noverlap, utc_time, base_freq_hz, loadResult,
                   sample_rate, linear_array, freqs_array, time_array, Pxx,
                   min_freq, max_freq, freqs_array_display, Pxx_display,
                   start_time, log_spec>>

Next ==
    \/ ManualEntry
    \/ PresetChoice
    \/ NameResolution
    \/ LoadIOError
    \/ LoadOtherError
    \/ LoadOk
    \/ Spectrogram
    \/ Detect
    \/ Calibrate
    \/ Render

Spec == Init /\ [][Next]_vars

---------------------------------------------------------------------------
(* Properties *)

\* row r of surface P holds a power p with 10*log10(p + 1e-10) > threshold_db
RowExceeds(P, r) ==
    \E c \in 1..Len(P[r]) :
        DbGreater(TenLog10(AddEps(P[r][c])), threshold_db)

SignalRows(P) == {r \in 1..Len(P) : RowExceeds(P, r)}

\* the detector has returned a pair for the surface in freqs_array, Pxx
Detected == pc = "calibrate"

\* the window parameters satisfy 0 <= V < N <= L
ValidParameters ==
    /\ 0 <= noverlap
    /\ noverlap < NFFT
    /\ NFFT <= Len(linear_array)

\* the k-th smallest member of a set of indices
Nth(S, k) == CHOOSE i \in S : Cardinality({j \in S : j <= i}) = k

\* C1: when no frequency row of the surface exceeds the 20 dB threshold the
\* detector never returns a frequency pair (it fails with NoSignalDetected).
C1_NoSignalNeverReturnsPair ==
    Detected => SignalRows(Pxx) # {}

\* C2: when some row exceeds the threshold, min_freq is the frequency of the
\* lowest such row and max_freq the frequency of the highest such row, so
\* min_freq <= max_freq and both are entries of freqs_array.
C2_RangeIsFirstAndLastSignalRow ==
    (Detected /\ SignalRows(Pxx) # {}) =>
        LET lo == CHOOSE i \in SignalRows(Pxx) :
                      \A j \in SignalRows(Pxx) : i <= j
            hi == CHOOSE i \in SignalRows(Pxx) :
                      \A j \in SignalRows(Pxx) : i >= j
        IN  /\ min_freq = freqs_array[lo]
            /\ max_freq = freqs_array[hi]
            /\ min_freq <= max_freq
            /\ \E i \in 1..Len(freqs_array) : freqs_array[i] = min_freq
            /\ \E i \in 1..Len(freqs_array) : freqs_array[i] = max_freq

\* a three-row surface whose band starts above row 1 and spans two rows
C2_Witness ==
    /\ Detected
    /\ Len(Pxx) = 3
    /\ SignalRows(Pxx) = {2, 3}
    /\ min_freq = freqs_array[2]
    /\ max_freq = freqs_array[3]

\* C3: whenever 0 <= V < N <= L is violated the spectrogram step fails
\* before a surface is produced, so neither a surface nor a rendered view
\* exists for such parameters.
C3_InvalidParametersFail ==
    (Len(Pxx) >= 1 \/ sink # <<>>) => ValidParameters

\* C4: the time axis is the start timestamp plus the relative time, at the
\* first and at the last index (no offset other than the start timestamp).
C4_TimeAxisIsStartPlusRelative ==
    [][pc = "calibrate" =>
          /\ time_array'[1] = utc_time + time_array[1]
          /\ time_array'[Len(time_array')] =
                 utc_time + time_array[Len(time_array)]]_vars

\* C5: the frequency axis is exactly the relative frequencies f with
\* min_freq <= f <= max_freq, in their order, each as (B + f) / 1e6 MHz, the
\* amplitude rows kept are the rows of those frequencies, and
\* value * 1e6 - B gives the relative frequency back.
C5_FrequencyAxisIsRestrictedAndShifted ==
    [][pc = "calibrate" =>
          LET keep == {i \in 1..Len(freqs_array) :
                          /\ min_freq <= freqs_array[i]
                          /\ freqs_array[i] <= max_freq}
          IN  /\ Len(freqs_array_display') = Cardinality(keep)
              /\ Len(Pxx_display') = Cardinality(keep)
              /\ \A r \in 1..Cardinality(keep) :
                    LET i == Nth(keep, r)
                        x == freqs_array_display'[r]
                    IN  /\ x.num * HzPerMHz =
                               (base_freq_hz + freqs_array[i]) * x.den
                        /\ (x.num * HzPerMHz) \div x.den - base_freq_hz =
                               freqs_array[i]
                        /\ Pxx_display'[r] = Pxx[i]]_vars

\* a view cut from a three-row surface down to two rows, with a base
\* frequency that is not zero
C5_Witness ==
    /\ pc = "render"
    /\ Nperseg(NFFT, Len(linear_array)) \div 2 + 1 = 3
    /\ Len(freqs_array_display) = 2
    /\ base_freq_hz > 0
    /\ min_freq > 0

\* C6: every amplitude handed to the rendering sink is finite, also where
\* the power is exactly 0.
C6_AmplitudesFinite ==
    sink # <<>> =>
        \A r \in 1..Len(sink[1].amplitude) :
            \A c \in 1..Len(sink[1].amplitude[r]) :
                sink[1].amplitude[r][c].finite

\* C7: a reported failure ends the invocation: no later stage is entered
\* and the rendering sink is never invoked.
C7_FailureIsTerminal ==
    error # "none" => (pc \in {"returned", "crashed"} /\ sink = <<>>)

\* C8: for 0 <= V < N <= L the surface has floor((L - N) / (N - V)) + 1
\* time columns.
C8_WindowCount ==
    (pc = "detect" /\ ValidParameters) =>
        /\ Len(time_array) =
               (Len(linear_array) - NFFT) \div (NFFT - noverlap) + 1
        /\ \A r \in 1..Len(Pxx) : Len(Pxx[r]) = Len(time_array)

\* maximal overlap, more than one window
C8_Witness ==
    /\ pc = "detect"
    /\ ValidParameters
    /\ noverlap = NFFT - 1
    /\ NFFT >= 2
    /\ Len(time_array) = Len(linear_array) - NFFT + 1
    /\ Len(time_array) >= 3

\* C9: a successful load never yields an empty waveform: samples has at
\* least one entry and sample_rate is positive.
C9_LoadedWaveformNonEmpty ==
    loadResult = "pair" => (Len(linear_array) >= 1 /\ sample_rate > 0)

\* C10: once the detector has returned a pair, the display range keeps at
\* least one row, and amplitude row r is the row of the frequency at entry
\* r of the axis.
C10_ViewNonEmptyAndAligned ==
    [][pc = "calibrate" =>
          /\ Len(freqs_array_display') >= 1
          /\ Len(Pxx_display') = Len(freqs_array_display')
          /\ Len(log_spec') = Len(freqs_array_display')
          /\ \A r \in 1..Len(freqs_array_display') :
                \E i \in 1..Len(freqs_array) :
                    /\ freqs_array_display'[r].num =
                           base_freq_hz + freqs_array[i]
                    /\ Pxx_display'[r] = Pxx[i]
                    /\ Len(log_spec'[r]) = Len(Pxx[i])
                    /\ \A c \in 1..Len(Pxx[i]) :
                          log_spec'[r][c].arg.whole = Pxx[i][c]]_vars

\* a band of a single row inside a surface of three rows
C10_Witness ==
    /\ pc = "render"
    /\ Nperseg(NFFT, Len(linear_array)) \div 2 + 1 = 3
    /\ min_freq = max_freq
    /\ min_freq > 0
    /\ Len(freqs_array_display) = 1
    /\ Len(log_spec) = 1

===========================================================================
